---- MODULE Spec2Model ----
(***************************************************************************)
(* A model of app.py, the Streamlit customer-support chatbot.              *)
(*                                                                         *)
(* A Python str is modelled as a sequence of one-character strings, so     *)
(* that strip, lower, the \s+ substitution, splitlines, split and the      *)
(* substring test are computed character by character.  Characters outside *)
(* ASCII are written by code point ("U+2122").                             *)
(*                                                                         *)
(* One script run of the page (a widget event, the handler it triggers,    *)
(* and the rerun the handler asks for) is one action.  The completion      *)
(* service is the environment: every client.chat.complete call draws its   *)
(* outcome (a text, a TypeError, another error) from a small set.          *)
(***************************************************************************)
EXTENDS Integers, Sequences, FiniteSets, TLC

VARIABLES
    chat_history,   \* st.session_state.chat_history
    pending_text,   \* st.session_state.pending_text
    draft_version,  \* st.session_state.draft_version
    draft,          \* the value held by the "Message" text input
    rendered,       \* the render passes of the last script run(s): the bubbles of each
    event,          \* the widget event that started the last script run
    calls,          \* the client.chat.complete calls of the last script run, in order
    shown,          \* what the sidebar tool displayed in the last script run, if any
    raw,            \* argument of parse_category (function specification)
    parsed          \* its result (function specification)

vars == <<chat_history, pending_text, draft_version, draft, rendered, event, calls,
          shown, raw, parsed>>

appVars == <<chat_history, pending_text, draft_version, draft, rendered, event, calls,
             shown>>

(***************************************************************************)
(* Bounds of the model.                                                    *)
(***************************************************************************)
\* cap of the draft_version counter: every accepted Send, every Clear and every
\* quick example bumps it, so it also caps the turns of the transcript
MaxDraft == 2
\* pieces concatenated into a raw model response (function specification)
MaxPieces == 3

(***************************************************************************)
(* str primitives                                                          *)
(***************************************************************************)
\* characters Python's str.strip(), str.split() and the regex class \s take as space
Whitespace == {" ", "\t", "\n", "\r"}

\* characters str.splitlines() breaks at
LineBreaks == {"\n", "\r"}

UpperCase == <<"A","B","C","D","E","F","G","H","I","J","K","L","M",
               "N","O","P","Q","R","S","T","U","V","W","X","Y","Z">>

LowerCase == <<"a","b","c","d","e","f","g","h","i","j","k","l","m",
               "n","o","p","q","r","s","t","u","v","w","x","y","z">>

Range(f) == {f[i] : i \in DOMAIN f}

\* the empty str
Empty == <<>>

\* the lower-case letter of each upper-case letter
ToLower ==
    [c \in Range(UpperCase) |->
        LowerCase[CHOOSE i \in 1..Len(UpperCase) : UpperCase[i] = c]]

lower_char(c) == IF c \in DOMAIN ToLower THEN ToLower[c] ELSE c

\* str.lower()
lower(s) == [i \in 1..Len(s) |-> lower_char(s[i])]

\* str.lstrip(): drop the leading whitespace (k characters of it)
lstrip(s) ==
    SubSeq(s,
           1 + CHOOSE k \in 0..Len(s) :
                   /\ \A j \in 1..k : s[j] \in Whitespace
                   /\ k < Len(s) => s[k + 1] \notin Whitespace,
           Len(s))

\* str.rstrip(): drop the trailing whitespace (k characters of it)
rstrip(s) ==
    SubSeq(s, 1,
           Len(s) - CHOOSE k \in 0..Len(s) :
                        /\ \A j \in 1..k : s[Len(s) + 1 - j] \in Whitespace
                        /\ k < Len(s) => s[Len(s) - k] \notin Whitespace)

\* str.strip()
strip(s) == rstrip(lstrip(s))

\* re.sub(r"\s+", " ", s): every maximal run of whitespace becomes one space (the
\* first character of a run is replaced by the space, the others are dropped)
sub_ws(s) ==
    LET marked == [i \in 1..Len(s) |->
                      IF s[i] \notin Whitespace THEN s[i]
                      ELSE IF i > 1 /\ s[i - 1] \in Whitespace THEN "" ELSE " "]
        kept(c) == c # ""
    IN  SelectSeq(marked, kept)

\* str.splitlines(): the lines of s, without their line breaks; "\r\n" is one break
RECURSIVE splitlines(_)
splitlines(s) ==
    IF s = Empty THEN <<>>
    ELSE IF \A i \in 1..Len(s) : s[i] \notin LineBreaks THEN <<s>>
    ELSE LET i    == CHOOSE k \in 1..Len(s) :
                         /\ s[k] \in LineBreaks
                         /\ \A j \in 1..(k - 1) : s[j] \notin LineBreaks
             skip == IF s[i] = "\r" /\ i < Len(s) /\ s[i + 1] = "\n" THEN 2 ELSE 1
         IN  <<SubSeq(s, 1, i - 1)>> \o splitlines(SubSeq(s, i + skip, Len(s)))

\* the positions where a maximal run of non-whitespace starts, in increasing order
TokenStarts(s) ==
    LET marked == [i \in 1..Len(s) |->
                      IF s[i] \notin Whitespace /\ (i = 1 \/ s[i - 1] \in Whitespace)
                      THEN i ELSE 0]
        start(i) == i > 0
    IN  SelectSeq(marked, start)

\* the token of s that starts at position i
TokenAt(s, i) ==
    SubSeq(s, i,
           CHOOSE k \in i..Len(s) :
               /\ \A j \in i..k : s[j] \notin Whitespace
               /\ k < Len(s) => s[k + 1] \in Whitespace)

\* str.split(): the maximal runs of non-whitespace
split(s) ==
    LET starts == TokenStarts(s)
    IN  [n \in 1..Len(starts) |-> TokenAt(s, starts[n])]

\* needle in hay, for two str
Contains(hay, needle) ==
    \E i \in 0..(Len(hay) - Len(needle)) : SubSeq(hay, i + 1, i + Len(needle)) = needle

RECURSIVE Concat(_)
Concat(ss) == IF ss = <<>> THEN Empty ELSE Head(ss) \o Concat(Tail(ss))

(***************************************************************************)
(* Results of a Python call: a returned value or a raised exception.       *)
(***************************************************************************)
Return(v) == [exc |-> "none", value |-> v]

Raise(e) == [exc |-> e, value |-> Empty]

\* no call was made
NotCalled == [exc |-> "not called", value |-> Empty]

(***************************************************************************)
(* Prompts + KB                                                            *)
(***************************************************************************)
CardArrival == <<"c","a","r","d"," ","a","r","r","i","v","a","l">>

ChangePin == <<"c","h","a","n","g","e"," ","p","i","n">>

ExchangeRate == <<"e","x","c","h","a","n","g","e"," ","r","a","t","e">>

CountrySupport == <<"c","o","u","n","t","r","y"," ","s","u","p","p","o","r","t">>

CancelTransfer == <<"c","a","n","c","e","l"," ","t","r","a","n","s","f","e","r">>

ChargeDispute == <<"c","h","a","r","g","e"," ","d","i","s","p","u","t","e">>

CustomerService == <<"c","u","s","t","o","m","e","r"," ","s","e","r","v","i","c","e">>

ALLOWED_CATEGORIES ==
    <<CardArrival, ChangePin, ExchangeRate, CountrySupport, CancelTransfer,
      ChargeDispute, CustomerService>>

KB ==
    [cat \in Range(ALLOWED_CATEGORIES) |->
        CASE cat = CardArrival ->
                 <<"T","r","a","c","k"," ","d","e","l","i","v","e","r","y"," ","i","n",
                   " ","C","a","r","d","s"," ",">"," ","T","r","a","c","k"," ","d","e",
                   "l","i","v","e","r","y","."," ","R","e","q","u","e","s","t"," ","r",
                   "e","p","l","a","c","e","m","e","n","t"," ","i","f"," ","o","v","e",
                   "r","d","u","e",".">>
          [] cat = ChangePin ->
                 <<"G","o"," ","t","o"," ","C","a","r","d","s"," ",">"," ","M","a","n",
                   "a","g","e"," ","c","a","r","d"," ",">"," ","C","h","a","n","g","e",
                   " ","P","I","N",".">>
          [] cat = ExchangeRate ->
                 <<"E","x","c","h","a","n","g","e"," ","r","a","t","e"," ","d","e","p",
                   "e","n","d","s"," ","o","n"," ","n","e","t","w","o","r","k"," ","r",
                   "a","t","e"," ","p","l","u","s"," ","b","a","n","k"," ","f","e","e",
                   "."," ","T","e","l","l"," ","m","e"," ","t","h","e"," ","c","u","r",
                   "r","e","n","c","i","e","s",".">>
          [] cat = CountrySupport ->
                 <<"M","o","s","t"," ","c","o","u","n","t","r","i","e","s"," ","a","r",
                   "e"," ","s","u","p","p","o","r","t","e","d","."," ","T","e","l","l",
                   " ","m","e"," ","y","o","u","r"," ","d","e","s","t","i","n","a","t",
                   "i","o","n",".">>
          [] cat = CancelTransfer ->
                 <<"I","f"," ","p","e","n","d","i","n","g",","," ","c","a","n","c","e",
                   "l"," ","i","n"," ","T","r","a","n","s","f","e","r","s"," ",">"," ",
                   "A","c","t","i","v","i","t","y",".">>
          [] cat = ChargeDispute ->
                 <<"O","p","e","n"," ","t","r","a","n","s","a","c","t","i","o","n"," ",
                   ">"," ","D","i","s","p","u","t","e"," ","c","h","a","r","g","e",".",
                   " ","P","r","o","v","i","d","e"," ","d","a","t","e",","," ","m","e",
                   "r","c","h","a","n","t",","," ","a","n","d"," ","r","e","a","s","o",
                   "n",".">>
          [] cat = CustomerService ->
                 <<"T","e","l","l"," ","m","e"," ","y","o","u","r"," ","i","s","s","u",
                   "e"," ","a","n","d"," ","I"," ","w","i","l","l"," ","g","u","i","d",
                   "e"," ","y","o","u",".">>]

\* KB.get(cat, KB["customer service"])
KB_get(cat) == IF cat \in DOMAIN KB THEN KB[cat] ELSE KB[CustomerService]

GREETINGS ==
    { <<"h","i">>, <<"h","e","l","l","o">>, <<"h","e","y">>, <<"y","o">>,
      <<"g","o","o","d"," ","m","o","r","n","i","n","g">>,
      <<"g","o","o","d"," ","a","f","t","e","r","n","o","o","n">>,
      <<"g","o","o","d"," ","e","v","e","n","i","n","g">> }

(***************************************************************************)
(* normalize_text, parse_category                                          *)
(***************************************************************************)
normalize_text(s) == sub_ws(lower(strip(s)))

parse_category(rawtext) ==
    LET r     == normalize_text(rawtext)
        lines == splitlines(r)
    IN  IF lines = <<>> THEN Raise("IndexError")
        ELSE LET first_line == strip(lines[1])
             IN  IF \E i \in 1..Len(ALLOWED_CATEGORIES) : ALLOWED_CATEGORIES[i] = first_line
                 THEN Return(first_line)
                 ELSE IF \E i \in 1..Len(ALLOWED_CATEGORIES) :
                             Contains(r, ALLOWED_CATEGORIES[i])
                 THEN Return(ALLOWED_CATEGORIES[
                          CHOOSE i \in 1..Len(ALLOWED_CATEGORIES) :
                              /\ Contains(r, ALLOWED_CATEGORIES[i])
                              /\ \A j \in 1..(i - 1) : ~Contains(r, ALLOWED_CATEGORIES[j])])
                 ELSE Return(CustomerService)

(***************************************************************************)
(* mistral_chat, classify_intent                                           *)
(***************************************************************************)
\* CLASSIFY_PROMPT.format(q=inquiry)
ClassifyPrompt(inquiry) ==
    [template |-> "CLASSIFY_PROMPT", guidance |-> Empty, text |-> inquiry]

\* the prompt of the chat handler: the guidance and the customer question
AnswerPrompt(guidance, inquiry) ==
    [template |-> "answer", guidance |-> guidance, text |-> inquiry]

\* the prompts of the JSON, email and summarization tools
ToolPrompt(tool, text) == [template |-> tool, guidance |-> Empty, text |-> text]

\* one client.chat.complete call: its prompt, whether response_format was passed,
\* and its outcome
Call(prompt, json, out) == [prompt |-> prompt, response_format |-> json, out |-> out]

\* mistral_chat(prompt, is_json): o1 is the outcome of the call in the try block,
\* o2 that of the call in the except TypeError block
mistral_chat(prompt, is_json, o1, o2) ==
    IF o1.exc = "TypeError"
    THEN [res |-> o2, calls |-> <<Call(prompt, is_json, o1), Call(prompt, FALSE, o2)>>]
    ELSE [res |-> o1, calls |-> <<Call(prompt, is_json, o1)>>]

ShortCircuitLen1(q) == Len(split(q)) <= 1 \/ q \in GREETINGS

\* the heuristic of classify_intent: very short / greetings
ShortCircuit(q) == Len(split(q)) <= 2 \/ q \in GREETINGS

classify_intent_no_except(inquiry, o1, o2) ==
    LET q == normalize_text(inquiry)
    IN  IF ShortCircuit(q) THEN [res |-> Return(CustomerService), calls |-> <<>>]
        ELSE LET c == mistral_chat(ClassifyPrompt(inquiry), FALSE, o1, o2)
             IN  [res   |-> IF c.res.exc = "none" THEN parse_category(c.res.value)
                            ELSE c.res,
                  calls |-> c.calls]

classify_intent(inquiry, o1, o2) ==
    LET q == normalize_text(inquiry)
    IN  IF ShortCircuit(q) THEN [res |-> Return(CustomerService), calls |-> <<>>]
        ELSE LET c == mistral_chat(ClassifyPrompt(inquiry), FALSE, o1, o2)
                 p == IF c.res.exc = "none" THEN parse_category(c.res.value) ELSE c.res
             IN  [res   |-> IF p.exc = "none" THEN p ELSE Return(CustomerService),
                  calls |-> c.calls]

(***************************************************************************)
(* Main: chatbot UI                                                        *)
(***************************************************************************)
examples ==
    << <<"M","y"," ","c","a","r","d"," ","d","i","d","n","U+00E2","U+20AC","U+2122","t",
      " ","a","r","r","i","v","e","."," ","W","h","a","t"," ","s","h","o","u","l","d",
      " ","I"," ","d","o","?">>,
       <<"I"," ","w","a","n","t"," ","t","o"," ","c","h","a","n","g","e"," ","m","y",
         " ","P","I","N",".">>,
       <<"D","o","e","s"," ","y","o","u","r"," ","c","a","r","d"," ","w","o","r","k",
         " ","i","n"," ","G","e","r","m","a","n","y","?">>,
       <<"I"," ","n","e","e","d"," ","t","o"," ","c","a","n","c","e","l"," ","a"," ",
         "t","r","a","n","s","f","e","r"," ","I"," ","j","u","s","t"," ","m","a","d",
         "e",".">>,
       <<"I"," ","w","a","s"," ","c","h","a","r","g","e","d"," ","t","w","i","c","e",
         " ","b","y"," ","a"," ","m","e","r","c","h","a","n","t",".">>,
       <<"W","h","a","t"," ","e","x","c","h","a","n","g","e"," ","r","a","t","e"," ",
         "w","i","l","l"," ","I"," ","g","e","t"," ","f","o","r"," ","E","U","R"," ",
         "t","o"," ","Q","A","R","?">> >>

\* default values of the sidebar text areas
ToolDefault ==
    [tool_json |-> <<"6","0"," ","y","e","a","r"," ","o","l","d"," ","m","a","l","e"," ","s","m","o",
      "k","e","r"," ","d","i","a","g","n","o","s","e","d"," ","w","i","t","h"," ","d",
      "i","a","b","e","t","e","s"," ","w","e","i","g","h","t"," ","2","1","0"," ","l",
      "b","s">>,
     tool_email |-> <<"W","h","a","t"," ","i","s"," ","y","o","u","r"," ","3","0","-","y","e","a","r",
      " ","A","P","R"," ","a","n","d"," ","h","o","w"," ","i","s"," ","i","t"," ","c",
      "o","m","p","a","r","e","d"," ","t","o"," ","1","5","-","y","e","a","r","?">>,
     tool_sum |-> <<"M","i","s","t","r","a","l"," ","p","a","r","t","n","e","r","e","d"," ","w","i",
      "t","h"," ","M","i","c","r","o","s","o","f","t",".",".",".">>]

\* one chat bubble: the caption is shown on assistant turns that carry a category
Bubble(item) ==
    IF item.role = "user"
    THEN [role |-> "user", caption |-> Empty, text |-> item.text]
    ELSE [role    |-> "assistant",
          caption |-> IF "cat" \in DOMAIN item THEN item.cat ELSE Empty,
          text    |-> item.text]

\* the loop that renders chat history as bubbles
render(history) == [i \in 1..Len(history) |-> Bubble(history[i])]

SendAcceptedNoStrip(send, msg) == send /\ msg # Empty

\* if send and msg.strip()
SendAccepted(send, msg) == send /\ strip(msg) # Empty

compose_answer_default(guidance, res) ==
    IF res.exc = "none" THEN strip(res.value) ELSE KB[CustomerService]

\* try: answer = mistral_chat(prompt).strip()  except Exception: answer = guidance
compose_answer(guidance, res) ==
    IF res.exc = "none" THEN strip(res.value) ELSE guidance

append_turns_user_only(history, inquiry, answer, cat) ==
    Append(history, [role |-> "user", text |-> inquiry])

\* the two chat_history.append calls of the chat handler
append_turns(history, inquiry, answer, cat) ==
    Append(Append(history, [role |-> "user", text |-> inquiry]),
           [role |-> "assistant", text |-> answer, cat |-> cat])

cleared_last_turn(history) == SubSeq(history, 1, Len(history) - 1)

\* st.session_state.chat_history = []
cleared(history) == <<>>

\* bump_draft
bump_draft(version) == version + 1

(***************************************************************************)
(* The environment: messages the user types, replies of the service.       *)
(***************************************************************************)
\* blank, whitespace only, two words, and an inquiry with surrounding whitespace
TypedMessages ==
    { Empty,
      <<" ","\t"," ">>,
      <<"C","h","a","n","g","e"," "," ","P","I","N">>,
      <<" ","D","o","e","s"," ","y","o","u","r"," ","c","a","r","d"," ","w","o","r","k",
        " ","i","n"," ","G","e","r","m","a","n","y","?"," ">> }

\* the quick examples the user picks among
Offered == {3}

\* what the user puts in the "Inquiry" text area: a greeting, a question
ToolInquiries ==
    { <<"H","E","L","L","O">>,
      <<"I","s"," ","i","t"," ","O","K"," ","n","o","w","?">> }

ClassifyTexts ==
    { <<"C","o","u","n","t","r","y"," ","S","u","p","p","o","r","t","\n">>,
      Empty }

AnswerTexts ==
    { <<" ","S","u","r","e","."," ">>,
      <<" ","\n">> }

ToolTexts ==
    { <<" ","S","u","r","e","."," ">> }

Outcomes(texts) ==
    { Return(t) : t \in texts } \cup { Raise("TypeError"), Raise("APIError") }

\* the outcomes of the second call, which is made only after a TypeError
Second(texts, o1) ==
    IF o1.exc = "TypeError"
    THEN { Return(t) : t \in texts } \cup { Raise("APIError") }
    ELSE {o1}

(***************************************************************************)
(* Actions: one per widget event, each with the script run it starts.      *)
(***************************************************************************)
\* the chat handler once classify_intent has returned c: compose (the outcomes of
\* its calls are ao1, ao2), append the two turns, bump_draft, st.rerun
Submit(msg, inquiry, c, ao1, ao2) ==
    LET cat      == c.res.value
        guidance == KB_get(cat)
        a        == mistral_chat(AnswerPrompt(guidance, inquiry), FALSE, ao1, ao2)
        answer   == compose_answer(guidance, a.res)
    IN  /\ chat_history' = append_turns(chat_history, inquiry, answer, cat)
        /\ draft_version' = bump_draft(draft_version)
        /\ calls' = c.calls \o a.calls
        /\ rendered' = <<render(chat_history), render(chat_history')>>
        /\ draft' = pending_text

\* the "Send" button of chat_form, with the message the text input holds (its
\* value as pasted, or what the user typed over it)
Send ==
    /\ \E msg \in TypedMessages \cup {draft} :
          /\ event' = [kind |-> "send", text |-> msg]
          /\ IF SendAccepted(TRUE, msg)
             THEN /\ draft_version < MaxDraft
                  /\ \E co1 \in Outcomes(ClassifyTexts) :
                     \E co2 \in Second(ClassifyTexts, co1) :
                        LET inquiry == strip(msg)
                            c       == classify_intent(inquiry, co1, co2)
                        IN  IF c.res.exc # "none"
                            THEN \* an exception out of classify_intent ends the run
                                 /\ calls' = c.calls
                                 /\ rendered' = <<render(chat_history)>>
                                 /\ draft' = msg
                                 /\ UNCHANGED <<chat_history, draft_version>>
                            ELSE \E ao1 \in Outcomes(AnswerTexts) :
                                 \E ao2 \in Second(AnswerTexts, ao1) :
                                     Submit(msg, inquiry, c, ao1, ao2)
             ELSE /\ calls' = <<>>
                  /\ rendered' = <<render(chat_history)>>
                  /\ draft' = msg
                  /\ UNCHANGED <<chat_history, draft_version>>
    /\ shown' = NotCalled
    /\ UNCHANGED <<pending_text, raw, parsed>>

\* the "Clear" button
Clear ==
    /\ draft_version < MaxDraft
    /\ event' = [kind |-> "clear", text |-> Empty]
    /\ chat_history' = cleared(chat_history)
    /\ draft_version' = bump_draft(draft_version)
    /\ rendered' = <<render(chat_history), render(chat_history')>>
    /\ draft' = pending_text
    /\ calls' = <<>>
    /\ shown' = NotCalled
    /\ UNCHANGED <<pending_text, raw, parsed>>

\* choose_example(text), the on_click callback of a quick-example button, as the
\* session state it leaves
choose_example(text) ==
    [pending_text |-> text, draft_version |-> bump_draft(draft_version)]

\* a quick-example button: the callback, then the script run, which pastes
\* pending_text into a fresh text input and resets it
ChooseExample ==
    /\ draft_version < MaxDraft
    /\ \E i \in Offered \cap (1..Len(examples)) :
          LET cb == choose_example(examples[i])
          IN  /\ event' = [kind |-> "example", text |-> examples[i]]
              /\ draft_version' = cb.draft_version
              /\ draft' = cb.pending_text
              /\ pending_text' = Empty
    /\ rendered' = <<render(chat_history)>>
    /\ calls' = <<>>
    /\ shown' = NotCalled
    /\ UNCHANGED <<chat_history, raw, parsed>>

\* the "Run Classification" button of the sidebar
ToolClassify ==
    /\ \E txt \in ToolInquiries :
       \E o1 \in { Return(t) : t \in ClassifyTexts \ {Empty} } \cup { Raise("APIError") } :
          LET c == classify_intent(txt, o1, o1)
          IN  /\ event' = [kind |-> "tool_classify", text |-> txt]
              /\ calls' = c.calls
              /\ shown' = c.res
              /\ rendered' = IF c.res.exc = "none" THEN <<render(chat_history)>> ELSE <<>>
    /\ UNCHANGED <<chat_history, pending_text, draft_version, draft, raw, parsed>>

\* the "Extract JSON", "Generate Email" and "Summarize" buttons of the sidebar; an
\* exception out of mistral_chat ends the script run before the chat is rendered
ToolCall ==
    /\ \E tool \in {"tool_json", "tool_email", "tool_sum"} :
       \E o1 \in Outcomes(ToolTexts) : \E o2 \in { Return(t) : t \in ToolTexts } :
          LET c == mistral_chat(ToolPrompt(tool, ToolDefault[tool]), tool = "tool_json",
                                o1, o2)
          IN  /\ event' = [kind |-> tool, text |-> ToolDefault[tool]]
              /\ calls' = c.calls
              /\ shown' = c.res
              /\ rendered' = IF c.res.exc = "none" THEN <<render(chat_history)>> ELSE <<>>
    /\ UNCHANGED <<chat_history, pending_text, draft_version, draft, raw, parsed>>

(***************************************************************************)
(* Function specification of parse_category: Init draws a raw response,    *)
(* ApplyParse applies the function to it.                                  *)
(***************************************************************************)
Pieces ==
    Range(ALLOWED_CATEGORIES) \cup
    { <<"C","o","u","n","t","r","y"," ","S","u","p","p","o","r","t">>,
      <<"I"," ","t","h","i","n","k",":"," ">>, <<"d","i","s">>, <<" ">>, <<"\n">> }

RawResponses ==
    { Concat(ps) : ps \in UNION { [1..n -> Pieces] : n \in 0..MaxPieces } }

AppInit ==
    /\ chat_history = <<>>
    /\ pending_text = Empty
    /\ draft_version = 0
    /\ draft = Empty
    /\ rendered = <<>>
    /\ event = [kind |-> "load", text |-> Empty]
    /\ calls = <<>>
    /\ shown = NotCalled

InitParse ==
    /\ AppInit
    /\ raw \in RawResponses
    /\ parsed = NotCalled

ApplyParse ==
    /\ parsed = NotCalled
    /\ parsed' = parse_category(raw)
    /\ UNCHANGED <<raw, appVars>>

NextParse == ApplyParse

SpecParse == InitParse /\ [][NextParse]_vars

(***************************************************************************)
(* The page.                                                               *)
(***************************************************************************)
Init ==
    /\ AppInit
    /\ raw = Empty
    /\ parsed = NotCalled

Next ==
    \/ Send
    \/ Clear
    \/ ChooseExample
    \/ ToolClassify
    \/ ToolCall

Spec == Init /\ [][Next]_vars

(***************************************************************************)
(* Properties.                                                             *)
(***************************************************************************)
LastTurn == chat_history[Len(chat_history)]

\* the last script run was a Send whose message passed the blank test
AcceptedSend == event.kind = "send" /\ strip(event.text) # Empty

\* the inquiry of that Send
SentInquiry == strip(event.text)

\* at most two tokens once normalized, or a greeting phrase
Trivial(text) ==
    LET q == normalize_text(text)
    IN  Len(split(q)) <= 2 \/ q \in GREETINGS

IsClassify(call) == call.prompt.template = "CLASSIFY_PROMPT"

IsCompose(call) == call.prompt.template = "answer"

ClassifyCalls == SelectSeq(calls, IsClassify)

ComposeCalls == SelectSeq(calls, IsCompose)

\* the classification call raised, or returned a text with no line to parse
ClassifyFailed ==
    /\ ClassifyCalls # <<>>
    /\ LET last == ClassifyCalls[Len(ClassifyCalls)]
       IN  last.out.exc # "none" \/ normalize_text(last.out.value) = Empty

ComposeFailed ==
    /\ ComposeCalls # <<>>
    /\ ComposeCalls[Len(ComposeCalls)].out.exc # "none"

\* the text of s up to its first newline
UpToNewline(s) ==
    IF \A i \in 1..Len(s) : s[i] # "\n" THEN s
    ELSE SubSeq(s, 1, (CHOOSE k \in 1..Len(s) :
                           s[k] = "\n" /\ \A j \in 1..(k - 1) : s[j] # "\n") - 1)

\* the first line of the raw response, trimmed and case-folded
FirstLine == lower(strip(UpToNewline(raw)))

\* C1: when the first line of the raw response, trimmed and case-folded, is an
\* allowed category, parse_category returns that category whatever follows.
C1_FirstLineCategoryWins ==
    (parsed # NotCalled /\ FirstLine \in Range(ALLOWED_CATEGORIES))
        => parsed = Return(FirstLine)

\* C2: when no allowed category appears in the raw response (the empty and the
\* whitespace-only response included), parse_category returns "customer service"
\* and raises nothing.
C2_NoCategoryFallsBack ==
    (/\ parsed # NotCalled
     /\ \A i \in 1..Len(ALLOWED_CATEGORIES) :
            ~Contains(normalize_text(raw), ALLOWED_CATEGORIES[i]))
        => parsed = Return(CustomerService)

\* C3: for an inquiry of at most 2 tokens, or a greeting, classify_intent returns
\* "customer service" and makes no call to the completion service: the sidebar
\* tool shows that category after a run without calls, and a Send records it on
\* the assistant turn after a run without a classification call.
C3_TrivialInquiryNotSentToService ==
    /\ (event.kind = "tool_classify" /\ Trivial(event.text))
           => (shown = Return(CustomerService) /\ calls = <<>>)
    /\ (AcceptedSend /\ Trivial(SentInquiry))
           => /\ ClassifyCalls = <<>>
              /\ Len(chat_history) >= 2
              /\ LastTurn.cat = CustomerService

C3_Witness ==
    /\ AcceptedSend
    /\ Len(split(normalize_text(SentInquiry))) = 2
    /\ Len(chat_history) >= 2
    /\ LastTurn.cat = CustomerService
    /\ ClassifyCalls = <<>>
    /\ ComposeCalls # <<>>

\* C4: when the classification call fails (or returns what cannot be parsed),
\* classify_intent returns "customer service" and raises nothing: the sidebar tool
\* shows that category, and a Send runs to its end and appends its two turns.
C4_ClassifyFailureFallsBack ==
    /\ (event.kind = "tool_classify" /\ ClassifyFailed)
           => shown = Return(CustomerService)
    /\ (AcceptedSend /\ ClassifyFailed)
           => /\ Len(chat_history) >= 2
              /\ chat_history[Len(chat_history) - 1] =
                     [role |-> "user", text |-> SentInquiry]
              /\ LastTurn.role = "assistant"
              /\ LastTurn.cat = CustomerService
              /\ Len(rendered) = 2
              /\ Len(rendered[2]) = Len(rendered[1]) + 2

C4_Witness ==
    /\ AcceptedSend
    /\ ClassifyFailed
    /\ Len(ClassifyCalls) = 2
    /\ ClassifyCalls[2].out.exc = "APIError"
    /\ Len(chat_history) >= 2
    /\ LastTurn.cat = CustomerService

\* C5: when the composition call of a Send fails, the text of the assistant turn
\* is the guidance of the category recorded on that turn, and of no other; when
\* the classification call failed too, the category is "customer service".
C5_FailedComposeAnswersWithGuidance ==
    (AcceptedSend /\ ComposeFailed)
        => /\ Len(chat_history) >= 2
           /\ LastTurn.text = KB[LastTurn.cat]
           /\ \A cat \in DOMAIN KB : LastTurn.text = KB[cat] => cat = LastTurn.cat
           /\ ClassifyFailed
                  => (/\ LastTurn.cat = CustomerService
                      /\ LastTurn.text = KB[CustomerService])

C5_Witness ==
    /\ AcceptedSend
    /\ ComposeFailed
    /\ ~ClassifyFailed
    /\ Len(chat_history) >= 2
    /\ LastTurn.cat = CountrySupport
    /\ LastTurn.text = KB[CountrySupport]

\* C6: a Send whose message is empty or whitespace only leaves the transcript as
\* it was and makes no call to the completion service.
C6_BlankSendIsNoOp ==
    [][(Send /\ strip(event'.text) = Empty)
           => (chat_history' = chat_history /\ calls' = <<>>)]_vars

C6_Witness ==
    /\ event.kind = "send"
    /\ event.text # Empty
    /\ strip(event.text) = Empty
    /\ Len(chat_history) = 2
    /\ calls = <<>>

IsTurnPair(u, a) ==
    /\ u.role = "user"
    /\ a.role = "assistant"
    /\ "cat" \in DOMAIN a
    /\ a.cat \in Range(ALLOWED_CATEGORIES)

IsBubblePair(u, a) ==
    /\ u.role = "user"
    /\ a.role = "assistant"
    /\ a.caption \in Range(ALLOWED_CATEGORIES)

\* C7: the transcript, in the state between script runs and in every render
\* pass, is a sequence of pairs, a user turn then an assistant turn with an
\* allowed category; an accepted Send shows the transcript before it and then the
\* transcript with exactly one more pair, the user turn being the inquiry.
C7_TranscriptIsPairs ==
    /\ Len(chat_history) % 2 = 0
    /\ \A i \in 1..(Len(chat_history) \div 2) :
           IsTurnPair(chat_history[2 * i - 1], chat_history[2 * i])
    /\ \A p \in 1..Len(rendered) :
           /\ Len(rendered[p]) % 2 = 0
           /\ \A i \in 1..(Len(rendered[p]) \div 2) :
                  IsBubblePair(rendered[p][2 * i - 1], rendered[p][2 * i])
    /\ AcceptedSend
           => /\ Len(rendered) = 2
              /\ Len(rendered[2]) = Len(rendered[1]) + 2
              /\ SubSeq(rendered[2], 1, Len(rendered[1])) = rendered[1]
              /\ rendered[2][Len(rendered[2]) - 1].text = SentInquiry
              /\ Len(chat_history) = Len(rendered[2])

C7_Witness ==
    /\ AcceptedSend
    /\ Len(rendered) = 2
    /\ Len(rendered[1]) = 2
    /\ Len(chat_history) = 4
    /\ IsTurnPair(chat_history[3], chat_history[4])

\* C8: Clear empties the transcript in one step, and no step removes only a part
\* of the turns.
C8_ClearEmptiesAtOnce ==
    [][/\ Clear => chat_history' = <<>>
       /\ Len(chat_history') < Len(chat_history) => chat_history' = <<>>]_vars

C8_Witness ==
    /\ event.kind = "clear"
    /\ Len(rendered) = 2
    /\ Len(rendered[1]) > 0
    /\ rendered[2] = <<>>
    /\ chat_history = <<>>

\* C9: a Send makes at most two calls to the completion service, one for the
\* classification and then one for the composition, none of them twice.
C9_AtMostTwoCallsPerSend ==
    event.kind = "send"
        => /\ Len(calls) <= 2
           /\ Len(ClassifyCalls) <= 1
           /\ Len(ComposeCalls) <= 1
           /\ Len(calls) = 2 => (IsClassify(calls[1]) /\ IsCompose(calls[2]))

\* C10: every turn of the transcript has a non-empty text.
C10_NoTurnWithEmptyText ==
    \A i \in 1..Len(chat_history) : chat_history[i].text # Empty

====
